---- MODULE Spec2Model ----
(***************************************************************************)
(* The registration form of src/App.tsx: the zod validation schema         *)
(* (formSchema), the react-hook-form controller that owns the draft and    *)
(* its error messages, and the two file inputs with their preview state.   *)
(*                                                                         *)
(* Representation.                                                         *)
(*  - A JavaScript string is a sequence of one-character strings.          *)
(*  - A value that may be undefined is a sequence of length 0 (undefined)  *)
(*    or 1 (the value): Undefined and Some(v).                             *)
(*  - Time (Date.now(), Date.getTime()) is counted in whole days since the *)
(*    epoch instead of milliseconds, so that ten years fit the integers    *)
(*    of the model checker: 1000*60*60*24*365 ms is Year = 365 days.       *)
(*  - A File is a record of its MIME type, as <<major, minor>>, and its    *)
(*    size in bytes.                                                       *)
(*  - A path of a zod issue is a record of the field and of the position   *)
(*    in the field's array: index 0 is the field itself, index k > 0 is    *)
(*    the k-th element (path [field, k - 1] in zod).                       *)
(***************************************************************************)
EXTENDS Integers, Sequences, FiniteSets

VARIABLES
    now,                         \* Date.now(), in days
    maxDateOfBirth,              \* the Date given to dateOfBirth's .max(), fixed when formSchema is built
    draft,                       \* the values of the form (react-hook-form's _formValues)
    errors,                      \* formState.errors: path -> message
    isSubmitted,                 \* formState.isSubmitted
    avatarPreview,               \* useState<string>()
    additionalPicturesPreviews,  \* useState<string[]>()
    lastEvent,                   \* the UI event handled last and what it did
    lastImageAvatar,             \* history: the last avatar selection made of an image
    lastImagePictures,           \* history: the last non-empty additionalPictures selection made of images only
    emptyPicked,                 \* history: some file-pick event had an empty file list
    result                       \* the outcome of the last direct run of formSchema

vars == <<now, maxDateOfBirth, draft, errors, isSubmitted, avatarPreview,
          additionalPicturesPreviews, lastEvent, lastImageAvatar,
          lastImagePictures, emptyPicked, result>>

-----------------------------------------------------------------------------
(* Bounds of the model *)

MaxElapsed == 1
MaxWebsiteLen == 6
MaxPhoneLen == 3
MaxSelected == 6

-----------------------------------------------------------------------------
(* Values *)

Undefined == <<>>
Some(v) == <<v>>

LoadTime == 20758
Year == 365
TenYears == 10 * Year

MinAge == 10
MinWebsiteLen == 5
MaxPictures == 5
AvatarMaxSize == 5 * 1024 * 1024
PictureMaxSize == 50 * 1024 * 1024

File(major, minor, size) == [type |-> <<major, minor>>, size |-> size]

StartsWithImage(f) == f.type[1] = "image"

ObjectURL(f) == [blob |-> f]

Path(field) == [field |-> field, index |-> 0]
ElementPath(field, k) == [field |-> field, index |-> k]
Issue(path, message) == [path |-> path, message |-> message]

Valid(v) == [status |-> "valid", issues |-> <<>>, value |-> v]
Dirty(issues, v) == [status |-> "dirty", issues |-> issues, value |-> v]
Aborted(issues) == [status |-> "aborted", issues |-> issues, value |-> Undefined]

-----------------------------------------------------------------------------
(* String helpers *)

LowerChar(c) == IF c = "A" THEN "a" ELSE c

ToLowerCase(s) == [i \in 1..Len(s) |-> LowerChar(s[i])]

IndexOf(s, c) ==
    IF \E i \in 1..Len(s) : s[i] = c
    THEN (CHOOSE i \in 1..Len(s) : s[i] = c /\ \A j \in 1..(i - 1) : s[j] # c) - 1
    ELSE -1

Digit == {"0", "1", "2", "3", "4", "5", "6", "7", "8", "9"}
Space == {" "}

\* The positions reached from a position of S by reading one character of class C.
Step(s, S, C) == {i + 1 : i \in {j \in S : j < Len(s) /\ s[j + 1] \in C}}

Opt(s, S, C) == S \cup Step(s, S, C)

RECURSIVE Plus(_, _, _)
Plus(s, S, C) ==
    IF Step(s, S, C) = {} THEN {} ELSE Step(s, S, C) \cup Plus(s, Step(s, S, C), C)

\* ([-]?[\s]?[0-9])
Unit(s, S) == Step(s, Opt(s, Opt(s, S, {"-"}), Space), Digit)

RECURSIVE UnitPlus(_, _)
UnitPlus(s, S) ==
    IF Unit(s, S) = {} THEN {} ELSE Unit(s, S) \cup UnitPlus(s, Unit(s, S))

\* /^([+]?[\s0-9]+)?(\d{3}|[(]?[0-9]+[)])?([-]?[\s]?[0-9])+$/
\* ([+]?[\s0-9]+)?
Group1(s, S) == S \cup Plus(s, Opt(s, S, {"+"}), Space \cup Digit)

\* (\d{3}|[(]?[0-9]+[)])?
Group2(s, S) ==
    S \cup Step(s, Step(s, Step(s, S, Digit), Digit), Digit)
      \cup Step(s, Plus(s, Opt(s, S, {"("}), Digit), {")"})

phoneRegex(s) == Len(s) \in UnitPlus(s, Group2(s, Group1(s, {0})))

-----------------------------------------------------------------------------
(* zod *)

\* ZodUnion over two options: the first valid result, else the first dirty one.
Union(path, r1, r2) ==
    IF r1.status = "valid" THEN r1
    ELSE IF r2.status = "valid" THEN r2
    ELSE IF r1.status = "dirty" THEN r1
    ELSE IF r2.status = "dirty" THEN r2
    ELSE Aborted(<<Issue(path, "Invalid input")>>)

\* z.literal('')
EmptyLiteral(path, v) ==
    IF v # Undefined /\ v[1] = <<>>
    THEN Valid(v)
    ELSE Aborted(<<Issue(path, "Invalid literal value, expected \"\"")>>)

\* name: z.string().min(1, 'Required')
NameSchema(v) ==
    IF v = Undefined THEN Aborted(<<Issue(Path("name"), "Required")>>)
    ELSE IF Len(v[1]) < 1 THEN Dirty(<<Issue(Path("name"), "Required")>>, v)
    ELSE Valid(v)

\* age: z.number().min(10, ...)
AgeSchema(v) ==
    IF v = Undefined THEN Aborted(<<Issue(Path("age"), "Required")>>)
    ELSE IF v[1] < MinAge
         THEN Dirty(<<Issue(Path("age"), "Must be at least 10 years old")>>, v)
    ELSE Valid(v)

\* z.string().regex(phoneRegex, 'Invalid').optional()
PhoneString(v) ==
    IF v = Undefined THEN Valid(v)
    ELSE IF ~phoneRegex(v[1]) THEN Dirty(<<Issue(Path("phone"), "Invalid")>>, v)
    ELSE Valid(v)

\* phone: ... .or(z.literal(''))
PhoneSchema(v) == Union(Path("phone"), PhoneString(v), EmptyLiteral(Path("phone"), v))

\* A value with the issues its checks and refinements raised, none of them fatal.
Checked(issues, v) == IF issues = <<>> THEN Valid(v) ELSE Dirty(issues, v)

\* .min(5, {message: 'Must be a minimum of 5 characters'})
TooShort(s) ==
    IF Len(s) < MinWebsiteLen
    THEN <<Issue(Path("website"), "Must be a minimum of 5 characters")>>
    ELSE <<>>

\* .refine((v) => v.indexOf('.') !== -1, {message: 'Invalid'})
NoDot(s) == IF IndexOf(s, ".") # -1 THEN <<>> ELSE <<Issue(Path("website"), "Invalid")>>

\* As WebsiteString, with the refinement's issue ahead of the length check's.
WebsiteStringRefineFirst(v) ==
    IF v = Undefined THEN Valid(v)
    ELSE Checked(NoDot(ToLowerCase(v[1])) \o TooShort(ToLowerCase(v[1])),
                 Some(ToLowerCase(v[1])))

\* z.string().toLowerCase().min(5, ...).refine(indexOf('.') !== -1, 'Invalid').optional()
WebsiteString(v) ==
    IF v = Undefined THEN Valid(v)
    ELSE Checked(TooShort(ToLowerCase(v[1])) \o NoDot(ToLowerCase(v[1])),
                 Some(ToLowerCase(v[1])))

\* As WebsiteSchema, without .or(z.literal('')).
WebsiteSchemaNoLiteral(v) == WebsiteString(v)

\* website: ... .or(z.literal(''))
WebsiteSchema(v) == Union(Path("website"), WebsiteString(v), EmptyLiteral(Path("website"), v))

\* dateOfBirth: z.date().max(new Date(Date.now() - 10 * 365 days), ...);
\* the bound is the Date built when the schema was.
DateOfBirthSchema(v, max) ==
    IF v = Undefined THEN Aborted(<<Issue(Path("dateOfBirth"), "Required")>>)
    ELSE IF v[1] > max
         THEN Dirty(<<Issue(Path("dateOfBirth"), "Must be at least 10 years old")>>, v)
    ELSE Valid(v)

\* As AvatarSchema, with the size bound exclusive.
AvatarSchemaBelowBound(v) ==
    IF v = Undefined THEN Aborted(<<Issue(Path("avatar"), "Required")>>)
    ELSE Checked((IF StartsWithImage(v[1])
                  THEN <<>>
                  ELSE <<Issue(Path("avatar"), "Invalid file type")>>)
                 \o
                 (IF v[1].size < AvatarMaxSize
                  THEN <<>>
                  ELSE <<Issue(Path("avatar"), "Image size must be less than 5MB")>>),
                 v)

\* avatar: z.instanceof(File, 'Required').refine(type).refine(size);
\* a failed instanceof is fatal, so that the refinements do not run.
AvatarSchema(v) ==
    IF v = Undefined THEN Aborted(<<Issue(Path("avatar"), "Required")>>)
    ELSE Checked((IF StartsWithImage(v[1])
                  THEN <<>>
                  ELSE <<Issue(Path("avatar"), "Invalid file type")>>)
                 \o
                 (IF v[1].size <= AvatarMaxSize
                  THEN <<>>
                  ELSE <<Issue(Path("avatar"), "Image size must be less than 5MB")>>),
                 v)

\* the element of additionalPictures: z.instanceof(File).refine(type).refine(size)
PictureIssues(f, k) ==
    (IF StartsWithImage(f)
     THEN <<>>
     ELSE <<Issue(ElementPath("additionalPictures", k), "Invalid file type")>>)
    \o
    (IF f.size <= PictureMaxSize
     THEN <<>>
     ELSE <<Issue(ElementPath("additionalPictures", k), "Image size must be less than 50MB")>>)

RECURSIVE ElementIssues(_, _)
ElementIssues(files, k) ==
    IF k > Len(files) THEN <<>>
    ELSE PictureIssues(files[k], k) \o ElementIssues(files, k + 1)

\* As AdditionalPicturesSchema, with the count bound exclusive.
AdditionalPicturesSchemaBelowMax(v) ==
    IF v = Undefined THEN Valid(v)
    ELSE Checked((IF Len(v[1]) >= MaxPictures
                  THEN <<Issue(Path("additionalPictures"), "Maximum 5 images allowed")>>
                  ELSE <<>>)
                 \o ElementIssues(v[1], 1),
                 v)

\* additionalPictures: z.array(...).max(5, ...).optional()
AdditionalPicturesSchema(v) ==
    IF v = Undefined THEN Valid(v)
    ELSE Checked((IF Len(v[1]) > MaxPictures
                  THEN <<Issue(Path("additionalPictures"), "Maximum 5 images allowed")>>
                  ELSE <<>>)
                 \o ElementIssues(v[1], 1),
                 v)

MergeStatus(rs) ==
    IF \E i \in DOMAIN rs : rs[i].status = "aborted" THEN "aborted"
    ELSE IF \E i \in DOMAIN rs : rs[i].status = "dirty" THEN "dirty"
    ELSE "valid"

\* The result of an object from the results of its keys, in the order of the
\* declaration: aborted when a key is, with the issues of all the keys.
MergeObject(n, a, p, w, d, v, x) ==
    [status |-> MergeStatus(<<n, a, p, w, d, v, x>>),
     issues |-> n.issues \o a.issues \o p.issues \o w.issues \o d.issues
                \o v.issues \o x.issues,
     value |-> IF MergeStatus(<<n, a, p, w, d, v, x>>) = "aborted" THEN Undefined
               ELSE Some([name |-> n.value, age |-> a.value, phone |-> p.value,
                          website |-> w.value, dateOfBirth |-> d.value,
                          avatar |-> v.value, additionalPictures |-> x.value])]

\* z.object({...}): every key is parsed.
ObjectSchema(values, max) ==
    MergeObject(NameSchema(values.name),
                AgeSchema(values.age),
                PhoneSchema(values.phone),
                WebsiteSchema(values.website),
                DateOfBirthSchema(values.dateOfBirth, max),
                AvatarSchema(values.avatar),
                AdditionalPicturesSchema(values.additionalPictures))

calculatedAge(dateOfBirth, t) == (t - dateOfBirth) \div Year

\* .superRefine((values, ctx) => ...) at time t: runs on the parsed object
\* unless the object's parse was aborted.
SuperRefine(inner, t) ==
    IF inner.status = "aborted" THEN inner
    ELSE IF /\ inner.value[1].age # Undefined
            /\ inner.value[1].dateOfBirth # Undefined
            /\ inner.value[1].age[1] # calculatedAge(inner.value[1].dateOfBirth[1], t)
         THEN Dirty(Append(inner.issues,
                           Issue(Path("age"), "Age must match date of birth")),
                    inner.value)
    ELSE inner

formSchema(values, t, max) == SuperRefine(ObjectSchema(values, max), t)

-----------------------------------------------------------------------------
(* @hookform/resolvers/zod and react-hook-form *)

IssuePaths(issues) == {issues[i].path : i \in DOMAIN issues}

FirstAt(issues, path) ==
    CHOOSE i \in DOMAIN issues :
        issues[i].path = path /\ \A j \in 1..(i - 1) : issues[j].path # path

\* parseErrorSchema: the first issue of every path gives the path's message.
FieldErrors(issues) ==
    [p \in IssuePaths(issues) |-> issues[FirstAt(issues, p)].message]

NoErrors == FieldErrors(<<>>)

\* The resolver's answer to a parse result: the parsed values, or the errors.
Resolved(r) ==
    IF r.issues = <<>>
    THEN [values |-> r.value, errors |-> NoErrors]
    ELSE [values |-> Undefined, errors |-> FieldErrors(r.issues)]

\* zodResolver(formSchema)
Resolver(values, t, max) == Resolved(formSchema(values, t, max))

-----------------------------------------------------------------------------
(* Inputs *)

Png(size) == File("image", "png", size)
Txt(size) == File("text", "plain", size)

FileSizes == {1, AvatarMaxSize, AvatarMaxSize + 1, PictureMaxSize, PictureMaxSize + 1}

Files == {Png(s) : s \in FileSizes} \cup {Txt(s) : s \in FileSizes}

WebsiteChars == {"a", "A", "."}
WebsiteStrings == UNION {[1..n -> WebsiteChars] : n \in 0..MaxWebsiteLen}

PhoneChars == {"+", "1", "-", "(", ")", " ", "x"}
PhoneStrings == UNION {[1..n -> PhoneChars] : n \in 0..MaxPhoneLen}

PictureFiles == {Png(PictureMaxSize), Png(PictureMaxSize + 1), Txt(1)}
PictureLists == UNION {[1..n -> PictureFiles] : n \in 0..MaxSelected}

Ages == {MinAge - 1, MinAge, MinAge + 1}

Dates == {LoadTime - TenYears - Year, LoadTime - TenYears - 1, LoadTime - TenYears,
          LoadTime - TenYears + 1, LoadTime - TenYears + Year}

Optional(S) == {Undefined} \cup {Some(v) : v \in S}

\* A draft that formSchema accepts at LoadTime.
BaseDraft ==
    [name |-> Some(<<"n">>), age |-> Some(MinAge), phone |-> Some(<<>>),
     website |-> Some(<<>>), dateOfBirth |-> Some(LoadTime - TenYears),
     avatar |-> Some(Png(1)), additionalPictures |-> Undefined]

CoreDrafts ==
    [name : Optional({<<>>, <<"n">>}),
     age : Optional(Ages),
     phone : {Some(<<>>), Some(<<"x">>)},
     website : {Some(<<>>), Some(<<"a", "b">>)},
     dateOfBirth : Optional(Dates),
     avatar : {Undefined, Some(Png(1)), Some(Txt(1)), Some(Txt(AvatarMaxSize + 1))},
     additionalPictures : {Undefined, Some(<<Txt(1)>>)}]

SchemaDrafts ==
    CoreDrafts
    \cup {[BaseDraft EXCEPT !.website = w] : w \in Optional(WebsiteStrings)}
    \cup {[BaseDraft EXCEPT !.phone = p] : p \in Optional(PhoneStrings)}
    \cup {[BaseDraft EXCEPT !.avatar = f] : f \in Optional(Files)}
    \cup {[BaseDraft EXCEPT !.additionalPictures = l] : l \in Optional(PictureLists)}

\* The form after the first render: registered text inputs hold '', inputs
\* with setValueAs hold undefined, the Controllers have no default value.
EmptyDraft ==
    [name |-> Some(<<>>), age |-> Undefined, phone |-> Some(<<>>),
     website |-> Some(<<>>), dateOfBirth |-> Undefined,
     avatar |-> Undefined, additionalPictures |-> Undefined]

Event(type, files, threw, invoked, data) ==
    [type |-> type, files |-> files, threw |-> threw, invoked |-> invoked,
     data |-> data]

-----------------------------------------------------------------------------
(* The schema run directly on a draft *)

InitSchema ==
    /\ now = LoadTime
    /\ maxDateOfBirth = LoadTime - TenYears
    /\ draft \in SchemaDrafts
    /\ errors = NoErrors
    /\ isSubmitted = FALSE
    /\ avatarPreview = Undefined
    /\ additionalPicturesPreviews = Undefined
    /\ lastEvent = Event("mount", Undefined, FALSE, FALSE, Undefined)
    /\ lastImageAvatar = Undefined
    /\ lastImagePictures = Undefined
    /\ emptyPicked = FALSE
    /\ result = Undefined

\* Time passes.
Tick ==
    /\ now < LoadTime + MaxElapsed
    /\ now' = now + 1
    /\ lastEvent' = Event("tick", Undefined, FALSE, FALSE, Undefined)
    /\ UNCHANGED <<maxDateOfBirth, draft, errors, isSubmitted, avatarPreview,
                   additionalPicturesPreviews, lastImageAvatar, lastImagePictures,
                   emptyPicked, result>>

\* formSchema.safeParse(draft)
Validate ==
    /\ result' = Some([at |-> now, parsed |-> formSchema(draft, now, maxDateOfBirth)])
    /\ UNCHANGED <<now, maxDateOfBirth, draft, errors, isSubmitted, avatarPreview,
                   additionalPicturesPreviews, lastEvent, lastImageAvatar,
                   lastImagePictures, emptyPicked>>

NextSchema == Tick \/ Validate

SpecSchema == InitSchema /\ [][NextSchema]_vars

-----------------------------------------------------------------------------
(* The form: one action per UI event *)

Null == <<>>

DigitValue(c) == CHOOSE n \in 0..9 : <<"0", "1", "2", "3", "4", "5", "6", "7", "8", "9">>[n + 1] = c

RECURSIVE ParseInt(_)
ParseInt(s) ==
    IF Len(s) = 1 THEN DigitValue(s[1])
    ELSE 10 * ParseInt(SubSeq(s, 1, Len(s) - 1)) + DigitValue(s[Len(s)])

\* register('age', {setValueAs: (v) => (v === '' ? undefined : parseInt(v, 10))})
AgeSetValueAs(v) == IF v = <<>> THEN Undefined ELSE Some(ParseInt(v))

\* register('dateOfBirth', {setValueAs: (v) => (v === '' ? undefined : new Date(v))});
\* the value of the date input is Undefined for '' and else the day it names.
DateSetValueAs(v) == IF v = Undefined THEN Undefined ELSE Some(v[1])

NameTexts == {<<>>, <<"n">>}
AgeTexts == {<<>>, <<"1", "0">>}
DateInputs == Optional({LoadTime - TenYears})
PhoneTexts == {<<>>}
WebsiteTexts == {<<>>, <<"a", "b">>}

\* e.target.files of the avatar input (not multiple): null, or at most one file.
AvatarSelections ==
    {Null} \cup {Some(l) : l \in {<<>>, <<Png(1)>>, <<Png(AvatarMaxSize + 1)>>, <<Txt(1)>>}}

\* e.target.files of the additionalPictures input (multiple).
PictureSelections ==
    {Null} \cup {Some(l) : l \in {<<>>, <<Png(1)>>, <<Png(1), Txt(1)>>,
                                  [k \in 1..MaxSelected |-> Png(1)]}}

\* The errors after a change of field `name`: nothing is validated before the
\* first submit (mode onSubmit); afterwards (reValidateMode onChange) the
\* resolver runs and the errors under `name` are replaced by its errors under
\* `name`.
ReplaceErrors(name, old, new) ==
    [p \in {q \in DOMAIN old : q.field # name} \cup {q \in DOMAIN new : q.field = name} |->
        IF p.field = name THEN new[p] ELSE old[p]]

ErrorsAfterChange(name, values, t) ==
    IF ~isSubmitted THEN errors
    ELSE ReplaceErrors(name, errors, Resolver(values, t, maxDateOfBirth).errors)

\* A registered input changes: name, age, dateOfBirth, phone, website.
Change(name, v) ==
    /\ draft' = [draft EXCEPT ![name] = v]
    /\ errors' = ErrorsAfterChange(name, draft', now)
    /\ lastEvent' = Event("change", Undefined, FALSE, FALSE, Undefined)
    /\ UNCHANGED <<now, maxDateOfBirth, isSubmitted, avatarPreview,
                   additionalPicturesPreviews, lastImageAvatar, lastImagePictures,
                   emptyPicked, result>>

ChangeName == \E v \in NameTexts : Change("name", Some(v))
ChangeAge == \E v \in AgeTexts : Change("age", AgeSetValueAs(v))
ChangeDateOfBirth == \E v \in DateInputs : Change("dateOfBirth", DateSetValueAs(v))
ChangePhone == \E v \in PhoneTexts : Change("phone", Some(v))
ChangeWebsite == \E v \in WebsiteTexts : Change("website", Some(v))

\* const file = e.target.files[0]
FirstFile(files) == IF Len(files) = 0 THEN Undefined ELSE Some(files[1])

\* file.type.startsWith('image/') on an undefined file is a TypeError.
AvatarOnChangeThrows(files) == FirstFile(files) = Undefined

\* As AvatarPreviewAfter, with the preview cleared by a file that is no image.
AvatarPreviewCleared(files, preview) ==
    IF AvatarOnChangeThrows(files) THEN preview
    ELSE IF ~StartsWithImage(FirstFile(files)[1]) THEN Undefined
    ELSE Some(ObjectURL(FirstFile(files)[1]))

\* if (!file.type.startsWith('image/')) return;
\* setAvatarPreview(file ? URL.createObjectURL(file) : undefined);
AvatarPreviewAfter(files, preview) ==
    IF AvatarOnChangeThrows(files) THEN preview
    ELSE IF ~StartsWithImage(FirstFile(files)[1]) THEN preview
    ELSE Some(ObjectURL(FirstFile(files)[1]))

\* The avatar input's onChange.
PickAvatar(sel) ==
    /\ lastEvent' = Event("pickAvatar", sel, sel # Null /\ AvatarOnChangeThrows(sel[1]),
                          FALSE, Undefined)
    /\ IF sel = Null
       THEN UNCHANGED <<draft, errors, avatarPreview, lastImageAvatar, emptyPicked>>
       ELSE /\ draft' = [draft EXCEPT !.avatar = FirstFile(sel[1])]
            /\ errors' = ErrorsAfterChange("avatar", draft', now)
            /\ avatarPreview' = AvatarPreviewAfter(sel[1], avatarPreview)
            /\ lastImageAvatar' =
                   IF Len(sel[1]) > 0 /\ sel[1][1].type[1] = "image"
                   THEN Some(sel[1][1])
                   ELSE lastImageAvatar
            /\ emptyPicked' = (emptyPicked \/ Len(sel[1]) = 0)
    /\ UNCHANGED <<now, maxDateOfBirth, isSubmitted, additionalPicturesPreviews,
                   lastImagePictures, result>>

\* As PicturesPreviewsAfter, with the type test on some file instead of every file.
PicturesPreviewsAfterSome(files, previews) ==
    IF ~(\E k \in DOMAIN files : StartsWithImage(files[k])) /\ Len(files) # 0 THEN previews
    ELSE IF Len(files) # 0 THEN Some([k \in DOMAIN files |-> ObjectURL(files[k])])
    ELSE Undefined

\* if (!files.every((f) => f.type.startsWith('image/'))) return;
\* setAdditionalPicturesPreviews(files.length ? files.map(createObjectURL) : undefined);
PicturesPreviewsAfter(files, previews) ==
    IF ~(\A k \in DOMAIN files : StartsWithImage(files[k])) THEN previews
    ELSE IF Len(files) # 0 THEN Some([k \in DOMAIN files |-> ObjectURL(files[k])])
    ELSE Undefined

\* The additionalPictures input's onChange.
PickAdditionalPictures(sel) ==
    /\ lastEvent' = Event("pickAdditionalPictures", sel, FALSE, FALSE, Undefined)
    /\ IF sel = Null
       THEN UNCHANGED <<draft, errors, additionalPicturesPreviews, lastImagePictures,
                        emptyPicked>>
       ELSE /\ draft' = [draft EXCEPT !.additionalPictures = Some(sel[1])]
            /\ errors' = ErrorsAfterChange("additionalPictures", draft', now)
            /\ additionalPicturesPreviews' =
                   PicturesPreviewsAfter(sel[1], additionalPicturesPreviews)
            /\ lastImagePictures' =
                   IF Len(sel[1]) > 0 /\ \A k \in 1..Len(sel[1]) : sel[1][k].type[1] = "image"
                   THEN sel
                   ELSE lastImagePictures
            /\ emptyPicked' = (emptyPicked \/ Len(sel[1]) = 0)
    /\ UNCHANGED <<now, maxDateOfBirth, isSubmitted, avatarPreview, lastImageAvatar,
                   result>>

\* As HandlerInvoked, without the test of the resolver's errors.
HandlerAlwaysInvoked(resolved) == TRUE

\* handleSubmit calls the handler when the resolver reports no error.
HandlerInvoked(resolved) == resolved.errors = NoErrors

\* onSubmit={handleSubmit((d) => console.log(d))}
SubmitResolved(resolved) ==
    /\ errors' = resolved.errors
    /\ isSubmitted' = TRUE
    /\ lastEvent' = Event("submit", Undefined, FALSE, HandlerInvoked(resolved),
                          IF HandlerInvoked(resolved) THEN resolved.values
                          ELSE Undefined)
    /\ UNCHANGED <<now, maxDateOfBirth, draft, avatarPreview,
                   additionalPicturesPreviews, lastImageAvatar, lastImagePictures,
                   emptyPicked, result>>

Submit == SubmitResolved(Resolver(draft, now, maxDateOfBirth))

Init ==
    /\ now = LoadTime
    /\ maxDateOfBirth = LoadTime - TenYears
    /\ draft = EmptyDraft
    /\ errors = NoErrors
    /\ isSubmitted = FALSE
    /\ avatarPreview = Undefined
    /\ additionalPicturesPreviews = Undefined
    /\ lastEvent = Event("mount", Undefined, FALSE, FALSE, Undefined)
    /\ lastImageAvatar = Undefined
    /\ lastImagePictures = Undefined
    /\ emptyPicked = FALSE
    /\ result = Undefined

Next ==
    \/ Tick
    \/ ChangeName
    \/ ChangeAge
    \/ ChangeDateOfBirth
    \/ ChangePhone
    \/ ChangeWebsite
    \/ \E sel \in AvatarSelections : PickAvatar(sel)
    \/ \E sel \in PictureSelections : PickAdditionalPictures(sel)
    \/ Submit

Spec == Init /\ [][Next]_vars

-----------------------------------------------------------------------------
(* Properties of the schema, stated on the outcome of a direct run *)

Validated == result # Undefined
Parsed == result[1].parsed
ValidatedAt == result[1].at
Reported == FieldErrors(Parsed.issues)
Passes(field) == Path(field) \notin DOMAIN Reported
FailsWith(field, message) ==
    /\ Parsed.issues # <<>>
    /\ Path(field) \in DOMAIN Reported
    /\ Reported[Path(field)] = message
HasIssue(field, message) ==
    \E i \in DOMAIN Parsed.issues : Parsed.issues[i] = Issue(Path(field), message)
ContainsDot(s) == \E i \in 1..Len(s) : s[i] = "."
ValidImage(f) == f.type[1] = "image" /\ f.size <= 50 * 1024 * 1024

\* C1: whenever age and dateOfBirth are both set and age differs from
\* floor((now - dateOfBirth) / 365 days) at validation time, validation fails
\* and 'Age must match date of birth' is attached to age, whatever the other
\* fields hold.
C1_AgeMismatchReported ==
    (/\ Validated
     /\ draft.age # Undefined
     /\ draft.dateOfBirth # Undefined
     /\ draft.age[1] # (ValidatedAt - draft.dateOfBirth[1]) \div 365)
    => (/\ Parsed.issues # <<>>
        /\ HasIssue("age", "Age must match date of birth"))

\* C4: an avatar that is not an image fails with 'Invalid file type', an image
\* above 5MB fails with 'Image size must be less than 5MB', an image of at
\* most 5MB passes, and an absent avatar fails with 'Required'.
C4_AvatarRules ==
    Validated =>
        IF draft.avatar = Undefined THEN FailsWith("avatar", "Required")
        ELSE IF draft.avatar[1].type[1] # "image"
             THEN FailsWith("avatar", "Invalid file type")
        ELSE IF draft.avatar[1].size > 5 * 1024 * 1024
             THEN FailsWith("avatar", "Image size must be less than 5MB")
        ELSE Passes("avatar")

C4_Witness ==
    /\ Validated
    /\ draft.avatar = Some(Png(5 * 1024 * 1024))
    /\ Passes("avatar")

\* C5: the empty and the absent website pass; a non-empty website of fewer
\* than 5 characters fails with 'Must be a minimum of 5 characters'; one of
\* at least 5 characters without '.' fails with 'Invalid'; one of at least 5
\* characters with a '.' passes.
C5_WebsiteRules ==
    Validated =>
        IF draft.website = Undefined \/ draft.website = Some(<<>>) THEN Passes("website")
        ELSE IF Len(draft.website[1]) < 5
             THEN FailsWith("website", "Must be a minimum of 5 characters")
        ELSE IF ~ContainsDot(draft.website[1]) THEN FailsWith("website", "Invalid")
        ELSE Passes("website")

C5_Witness ==
    /\ Validated
    /\ draft.website = Some(<<"a", "A", "a", "A", "a">>)
    /\ FailsWith("website", "Invalid")

\* C6: six or more valid image files fail on additionalPictures with
\* 'Maximum 5 images allowed'; an absent value and a list of at most five
\* image files of at most 50MB each pass.
C6_PictureCount ==
    Validated =>
        /\ (/\ draft.additionalPictures # Undefined
            /\ Len(draft.additionalPictures[1]) >= 6
            /\ \A k \in DOMAIN draft.additionalPictures[1] :
                   ValidImage(draft.additionalPictures[1][k]))
           => FailsWith("additionalPictures", "Maximum 5 images allowed")
        /\ (\/ draft.additionalPictures = Undefined
            \/ /\ Len(draft.additionalPictures[1]) <= 5
               /\ \A k \in DOMAIN draft.additionalPictures[1] :
                      ValidImage(draft.additionalPictures[1][k]))
           => \A i \in DOMAIN Parsed.issues :
                  Parsed.issues[i].path.field # "additionalPictures"

C6_Witness ==
    /\ Validated
    /\ draft.additionalPictures # Undefined
    /\ Len(draft.additionalPictures[1]) = 6
    /\ \A k \in 1..6 : ValidImage(draft.additionalPictures[1][k])
    /\ FailsWith("additionalPictures", "Maximum 5 images allowed")

\* The messages of the rules of a field that the draft breaks, in the
\* priority order of the specification: required-ness, type/format,
\* size/length bound, cross-field check.
When(cond, message) == IF cond THEN <<message>> ELSE <<>>

BrokenAge ==
    When(draft.age = Undefined, "Required")
    \o When(draft.age # Undefined /\ draft.age[1] < 10, "Must be at least 10 years old")
    \o When(/\ draft.age # Undefined
            /\ draft.dateOfBirth # Undefined
            /\ draft.age[1] # (ValidatedAt - draft.dateOfBirth[1]) \div 365,
            "Age must match date of birth")

BrokenAvatar ==
    When(draft.avatar = Undefined, "Required")
    \o When(draft.avatar # Undefined /\ draft.avatar[1].type[1] # "image",
            "Invalid file type")
    \o When(draft.avatar # Undefined /\ draft.avatar[1].size > 5 * 1024 * 1024,
            "Image size must be less than 5MB")

WebsiteGiven == draft.website # Undefined /\ draft.website # Some(<<>>)
WebsiteFormat == When(WebsiteGiven /\ ~ContainsDot(draft.website[1]), "Invalid")
WebsiteLength ==
    When(WebsiteGiven /\ Len(draft.website[1]) < 5, "Must be a minimum of 5 characters")

BrokenPicture(k) ==
    When(draft.additionalPictures[1][k].type[1] # "image", "Invalid file type")
    \o When(draft.additionalPictures[1][k].size > 50 * 1024 * 1024,
            "Image size must be less than 50MB")

FirstWins(path, broken) ==
    Len(broken) > 1 => (path \in DOMAIN Reported /\ Reported[path] = broken[1])

FirstWinsElsewhere ==
    /\ FirstWins(Path("age"), BrokenAge)
    /\ FirstWins(Path("avatar"), BrokenAvatar)
    /\ draft.additionalPictures # Undefined =>
           \A k \in DOMAIN draft.additionalPictures[1] :
               FirstWins(ElementPath("additionalPictures", k), BrokenPicture(k))

\* C7 as stated: when several rules of a field fail, the message reported for
\* the field is that of the first failing rule in the order required-ness,
\* type/format, size/length bound, cross-field check.
C7_PriorityOrder ==
    Validated =>
        /\ FirstWinsElsewhere
        /\ FirstWins(Path("website"), WebsiteFormat \o WebsiteLength)

\* C7 amended: the message reported for a field is that of the first failing
\* rule in the order in which the schema declares the field's rules: for
\* website the length bound (at least 5 characters) comes before the format
\* rule (contains a '.'); for the other fields required-ness, type/format,
\* size/length bound, cross-field check.
C7_DeclarationOrder ==
    Validated =>
        /\ FirstWinsElsewhere
        /\ FirstWins(Path("website"), WebsiteLength \o WebsiteFormat)

C7_Witness ==
    /\ Validated
    /\ draft.website = Some(<<"a", "b">>)
    /\ FailsWith("website", "Must be a minimum of 5 characters")

\* C8: dateOfBirth is accepted exactly when it is at least 10 * 365 days
\* before the time at which validation runs, and fails with 'Must be at
\* least 10 years old' otherwise, however long ago the schema was built.
C8_TenYearsBeforeNow ==
    (Validated /\ draft.dateOfBirth # Undefined) =>
        IF draft.dateOfBirth[1] <= ValidatedAt - 10 * 365
        THEN Passes("dateOfBirth")
        ELSE FailsWith("dateOfBirth", "Must be at least 10 years old")

-----------------------------------------------------------------------------
(* Properties of the form *)

HasNonImage(files) == \E k \in DOMAIN files : files[k].type[1] # "image"

\* C2: a file-pick event in which some selected file is not an image sets the
\* field's value to the new selection and leaves the field's preview state as
\* it was before the event, for avatar and for additionalPictures.
C2_NonImageKeepsPreview ==
    [][/\ (/\ lastEvent'.type = "pickAvatar"
           /\ lastEvent'.files # Null
           /\ HasNonImage(lastEvent'.files[1]))
          => (/\ draft'.avatar = Some(lastEvent'.files[1][1])
              /\ avatarPreview' = avatarPreview)
       /\ (/\ lastEvent'.type = "pickAdditionalPictures"
           /\ lastEvent'.files # Null
           /\ HasNonImage(lastEvent'.files[1]))
          => (/\ draft'.additionalPictures = lastEvent'.files
              /\ additionalPicturesPreviews' = additionalPicturesPreviews)]_vars

C2_Witness ==
    /\ lastEvent.type = "pickAvatar"
    /\ lastEvent.files = Some(<<Txt(1)>>)
    /\ draft.avatar = Some(Txt(1))
    /\ avatarPreview = Some(ObjectURL(Png(1)))

\* C3: the submit handler is invoked at a submit event only if the draft at
\* that moment passes the whole schema; when it does not, the handler is not
\* invoked and every failing path has an error message.
C3_HandlerOnlyWhenValid ==
    lastEvent.type = "submit" =>
        LET issues == formSchema(draft, now, maxDateOfBirth).issues
        IN  /\ lastEvent.invoked => issues = <<>>
            /\ issues # <<>> =>
                   /\ ~lastEvent.invoked
                   /\ \A i \in DOMAIN issues : issues[i].path \in DOMAIN errors

C3_Witness ==
    /\ lastEvent.type = "submit"
    /\ lastEvent.invoked
    /\ lastEvent.data # Undefined
    /\ draft.avatar # Undefined

\* C9: as long as every file-pick event had a non-empty selection, each
\* preview state is that of the field's most recent selection made of images
\* only (unset if there was none): avatarPreview is the reference created
\* from that file, additionalPicturesPreviews has one reference per file, in
\* order; the size and count rules play no part.
C9_PreviewOfLastImageSelection ==
    ~emptyPicked =>
        /\ avatarPreview =
               IF lastImageAvatar = Undefined THEN Undefined
               ELSE Some([blob |-> lastImageAvatar[1]])
        /\ additionalPicturesPreviews =
               IF lastImagePictures = Undefined THEN Undefined
               ELSE Some([k \in 1..Len(lastImagePictures[1]) |->
                              [blob |-> lastImagePictures[1][k]]])

C9_Witness ==
    /\ ~emptyPicked
    /\ draft.avatar = Some(Txt(1))
    /\ avatarPreview = Some(ObjectURL(Png(5 * 1024 * 1024 + 1)))
    /\ draft.additionalPictures = Some(<<Png(1), Txt(1)>>)
    /\ additionalPicturesPreviews # Undefined
    /\ Len(additionalPicturesPreviews[1]) = 6

\* C10: a file-pick event with an empty, non-null file list is handled
\* without error: the value becomes absent (avatar) or the empty list
\* (additionalPictures) and the field's preview state is cleared.
C10_EmptySelectionHandled ==
    /\ (lastEvent.type = "pickAvatar" /\ lastEvent.files = Some(<<>>))
       => (/\ ~lastEvent.threw
           /\ draft.avatar = Undefined
           /\ avatarPreview = Undefined)
    /\ (lastEvent.type = "pickAdditionalPictures" /\ lastEvent.files = Some(<<>>))
       => (/\ ~lastEvent.threw
           /\ draft.additionalPictures = Some(<<>>)
           /\ additionalPicturesPreviews = Undefined)

====
